---- MODULE Spec2Model ----
(***************************************************************************)
(* A model of the native-object export bridge of HAL / JavaScriptCoreCPP:  *)
(* JSNativeObjectBuilder<T> (its setters and build()), the compilation of  *)
(* a builder into a JSNativeObject<T> / JSClassDefinition, the engine's    *)
(* documented dispatch over a compiled class, the                          *)
(* JSExportNamedFunctionPropertyCallback<T> value type, and JSArray.       *)
(***************************************************************************)
EXTENDS Integers, Sequences, FiniteSets, TLC

(***************************************************************************)
(* Bounds of the model.                                                    *)
(***************************************************************************)
MaxSetterCalls == 2
MaxClasses == 2
MaxInstances == 1
MaxObjects == 2
MaxArrayLen == 2

(***************************************************************************)
(* Program constants.                                                      *)
(***************************************************************************)
\* std::bitset<2> native_object_attributes
BitsetWidth == 2

(***************************************************************************)
(* Values.                                                                 *)
(***************************************************************************)
\* nullptr for a callback (std::function) and for a shared_ptr
NullCb == "nullptr"
NullPtr == 0
\* the engine's undefined sentinel, and the outcome of a native fault
Undefined == "undefined"
Fault == "fault"

Contexts == {"ctx1", "ctx2"}
ClassNames == {"", "A"}
\* ordinals of JSNativeObjectAttributes values handed to set_attributes: None
\* is 0 and NoAutomaticPrototype is 1; 2 is a value cast into the enumeration
\* that is none of its enumerators
AttributeArgs == {{}, {0}, {1}, {0, 1}, {2}, {1, 2}}
CallbackArgs == {NullCb, "cb"}

\* arguments a caller may hand to the function property callback constructor
FunctionNames == {"", "greet", "count"}
FunctionCallbacks == {NullCb, "fn_greet", "fn_count"}
PropertyAttributeSets == {{}, {"DontEnum"}}

\* JSNativeObjectValuePropertyCallback<T> values a caller may register
ValuePool ==
  { [name |-> "count", attributes |-> {"ReadOnly"}, getter |-> "42", setter |-> "set_count"],
    [name |-> "size",  attributes |-> {},           getter |-> "7", setter |-> "set_size"] }
\* JSNativeObjectFunctionPropertyCallback<T> values a caller may register
FunctionPool ==
  { [name |-> "greet", attributes |-> {}, function_callback |-> "fn_greet"],
    [name |-> "count", attributes |-> {}, function_callback |-> "fn_count"] }

\* property names a script may query
Names == {"count", "size", "greet", "dyn", "toString", "nope"}

VARIABLES
  builder,      \* the JSNativeObjectBuilder<T>: one field per private member
  lastArg,      \* per field, the argument of the most recent set_X call
  nsets,        \* number of setter calls made so far
  classes,      \* the JSNativeObject<T> values built so far
  buildResult,  \* outcome of the most recent build()
  instances,    \* the instances the engine made of the built classes
  last,         \* the most recent property query and how it was resolved
  objs,         \* JSExportNamedFunctionPropertyCallback<T> objects
  ctorResult,   \* outcome of the most recent callback constructor call
  cmp,          \* the most recent operator== call and its result
  array,        \* the JavaScript object a JSArray wraps
  arrayResult   \* the most recent GetLength or vector conversion and its result

vars == <<builder, lastArg, nsets, classes, buildResult, instances, last,
          objs, ctorResult, cmp, array, arrayResult>>
bvars == <<builder, lastArg, nsets>>
cvars == <<classes, buildResult>>
ivars == <<instances, last>>
ovars == <<objs, ctorResult, cmp>>
avars == <<array, arrayResult>>

(***************************************************************************)
(* JSNativeObjectBuilder<T>                                                *)
(***************************************************************************)
\* the member defaults of a builder constructed with js_context
BuilderDefaults(js_context) ==
  [ js_context                          |-> js_context,
    class_name                          |-> "",
    attributes                          |-> {},
    parent_ptr                          |-> NullPtr,
    value_property_callbacks            |-> {},
    function_property_callbacks         |-> {},
    initialize_callback                 |-> NullCb,
    finalize_callback                   |-> NullCb,
    has_property_callback               |-> NullCb,
    get_property_callback               |-> NullCb,
    set_property_callback               |-> NullCb,
    delete_property_callback            |-> NullCb,
    get_property_names_callback         |-> NullCb,
    call_as_function_callback           |-> NullCb,
    call_as_constructor_callback        |-> NullCb,
    call_as_function_with_this_callback |-> NullCb,
    has_instance_callback               |-> NullCb,
    convert_to_type_callback            |-> NullCb ]

Init ==
  /\ builder = BuilderDefaults("ctx1")
  /\ lastArg = BuilderDefaults("ctx1")
  /\ nsets = 0
  /\ classes = <<>>
  /\ buildResult = [outcome |-> "none"]
  /\ instances = <<>>
  /\ last = [op |-> "none"]
  /\ objs = <<>>
  /\ ctorResult = [outcome |-> "none"]
  /\ cmp = [op |-> "none"]
  /\ array = [has_length |-> TRUE,
              length |-> [type |-> "number", nan |-> FALSE, hi |-> 0, lo |-> 0,
                          half |-> FALSE],
              items |-> <<>>]
  /\ arrayResult = [op |-> "none"]

\* the getters: each returns the member
get_js_context == builder.js_context
get_class_name == builder.class_name
get_attributes == builder.attributes
get_parent_ptr == builder.parent_ptr
get_value_property_callbacks == builder.value_property_callbacks
get_function_property_callbacks == builder.function_property_callbacks
get_initialize_callback == builder.initialize_callback
get_finalize_callback == builder.finalize_callback
get_has_property_callback == builder.has_property_callback
get_get_property_callback == builder.get_property_callback
get_set_property_callback == builder.set_property_callback
get_delete_property_callback == builder.delete_property_callback
get_get_property_names_callback == builder.get_property_names_callback
get_call_as_function_callback == builder.call_as_function_callback
get_call_as_function_with_this_callback == builder.call_as_function_with_this_callback
get_call_as_constructor_callback == builder.call_as_constructor_callback
get_has_instance_callback == builder.has_instance_callback
get_convert_to_type_callback == builder.convert_to_type_callback

\* set_js_context(const JSContext& js_context_): the parameter is named like
\* the member and hides it, so the assignment in the body never reaches the
\* member js_context_; the builder keeps the context it was constructed with.
set_js_context(js_context_) ==
  /\ nsets < MaxSetterCalls
  /\ builder' = builder
  /\ lastArg' = [lastArg EXCEPT !.js_context = js_context_]
  /\ nsets' = nsets + 1
  /\ UNCHANGED <<avars, cvars, ivars, ovars>>

set_class_name(class_name) ==
  /\ nsets < MaxSetterCalls
  /\ builder' = [builder EXCEPT !.class_name = class_name]
  /\ lastArg' = [lastArg EXCEPT !.class_name = class_name]
  /\ nsets' = nsets + 1
  /\ UNCHANGED <<avars, cvars, ivars, ovars>>

set_attributes(attributes) ==
  /\ nsets < MaxSetterCalls
  /\ builder' = [builder EXCEPT !.attributes = attributes]
  /\ lastArg' = [lastArg EXCEPT !.attributes = attributes]
  /\ nsets' = nsets + 1
  /\ UNCHANGED <<avars, cvars, ivars, ovars>>

set_parent_ptr(parent_ptr) ==
  /\ nsets < MaxSetterCalls
  /\ builder' = [builder EXCEPT !.parent_ptr = parent_ptr]
  /\ lastArg' = [lastArg EXCEPT !.parent_ptr = parent_ptr]
  /\ nsets' = nsets + 1
  /\ UNCHANGED <<avars, cvars, ivars, ovars>>

set_value_property_callbacks(value_property_callbacks) ==
  /\ nsets < MaxSetterCalls
  /\ builder' = [builder EXCEPT !.value_property_callbacks = value_property_callbacks]
  /\ lastArg' = [lastArg EXCEPT !.value_property_callbacks = value_property_callbacks]
  /\ nsets' = nsets + 1
  /\ UNCHANGED <<avars, cvars, ivars, ovars>>

set_function_property_callbacks(function_property_callbacks) ==
  /\ nsets < MaxSetterCalls
  /\ builder' = [builder EXCEPT !.function_property_callbacks = function_property_callbacks]
  /\ lastArg' = [lastArg EXCEPT !.function_property_callbacks = function_property_callbacks]
  /\ nsets' = nsets + 1
  /\ UNCHANGED <<avars, cvars, ivars, ovars>>

set_initialize_callback(initialize_callback) ==
  /\ nsets < MaxSetterCalls
  /\ builder' = [builder EXCEPT !.initialize_callback = initialize_callback]
  /\ lastArg' = [lastArg EXCEPT !.initialize_callback = initialize_callback]
  /\ nsets' = nsets + 1
  /\ UNCHANGED <<avars, cvars, ivars, ovars>>

set_finalize_callback(finalize_callback) ==
  /\ nsets < MaxSetterCalls
  /\ builder' = [builder EXCEPT !.finalize_callback = finalize_callback]
  /\ lastArg' = [lastArg EXCEPT !.finalize_callback = finalize_callback]
  /\ nsets' = nsets + 1
  /\ UNCHANGED <<avars, cvars, ivars, ovars>>

set_has_property_callback(has_property_callback) ==
  /\ nsets < MaxSetterCalls
  /\ builder' = [builder EXCEPT !.has_property_callback = has_property_callback]
  /\ lastArg' = [lastArg EXCEPT !.has_property_callback = has_property_callback]
  /\ nsets' = nsets + 1
  /\ UNCHANGED <<avars, cvars, ivars, ovars>>

set_get_property_callback(get_property_callback) ==
  /\ nsets < MaxSetterCalls
  /\ builder' = [builder EXCEPT !.get_property_callback = get_property_callback]
  /\ lastArg' = [lastArg EXCEPT !.get_property_callback = get_property_callback]
  /\ nsets' = nsets + 1
  /\ UNCHANGED <<avars, cvars, ivars, ovars>>

set_set_property_callback(set_property_callback) ==
  /\ nsets < MaxSetterCalls
  /\ builder' = [builder EXCEPT !.set_property_callback = set_property_callback]
  /\ lastArg' = [lastArg EXCEPT !.set_property_callback = set_property_callback]
  /\ nsets' = nsets + 1
  /\ UNCHANGED <<avars, cvars, ivars, ovars>>

set_delete_property_callback(delete_property_callback) ==
  /\ nsets < MaxSetterCalls
  /\ builder' = [builder EXCEPT !.delete_property_callback = delete_property_callback]
  /\ lastArg' = [lastArg EXCEPT !.delete_property_callback = delete_property_callback]
  /\ nsets' = nsets + 1
  /\ UNCHANGED <<avars, cvars, ivars, ovars>>

set_get_property_names_callback(get_property_names_callback) ==
  /\ nsets < MaxSetterCalls
  /\ builder' = [builder EXCEPT !.get_property_names_callback = get_property_names_callback]
  /\ lastArg' = [lastArg EXCEPT !.get_property_names_callback = get_property_names_callback]
  /\ nsets' = nsets + 1
  /\ UNCHANGED <<avars, cvars, ivars, ovars>>

set_call_as_function_callback(call_as_function_callback) ==
  /\ nsets < MaxSetterCalls
  /\ builder' = [builder EXCEPT !.call_as_function_callback = call_as_function_callback]
  /\ lastArg' = [lastArg EXCEPT !.call_as_function_callback = call_as_function_callback]
  /\ nsets' = nsets + 1
  /\ UNCHANGED <<avars, cvars, ivars, ovars>>

set_call_as_function_with_this_callback(call_as_function_with_this_callback) ==
  /\ nsets < MaxSetterCalls
  /\ builder' = [builder EXCEPT !.call_as_function_with_this_callback = call_as_function_with_this_callback]
  /\ lastArg' = [lastArg EXCEPT !.call_as_function_with_this_callback = call_as_function_with_this_callback]
  /\ nsets' = nsets + 1
  /\ UNCHANGED <<avars, cvars, ivars, ovars>>

set_call_as_constructor_callback(call_as_constructor_callback) ==
  /\ nsets < MaxSetterCalls
  /\ builder' = [builder EXCEPT !.call_as_constructor_callback = call_as_constructor_callback]
  /\ lastArg' = [lastArg EXCEPT !.call_as_constructor_callback = call_as_constructor_callback]
  /\ nsets' = nsets + 1
  /\ UNCHANGED <<avars, cvars, ivars, ovars>>

set_has_instance_callback(has_instance_callback) ==
  /\ nsets < MaxSetterCalls
  /\ builder' = [builder EXCEPT !.has_instance_callback = has_instance_callback]
  /\ lastArg' = [lastArg EXCEPT !.has_instance_callback = has_instance_callback]
  /\ nsets' = nsets + 1
  /\ UNCHANGED <<avars, cvars, ivars, ovars>>

set_convert_to_type_callback(convert_to_type_callback) ==
  /\ nsets < MaxSetterCalls
  /\ builder' = [builder EXCEPT !.convert_to_type_callback = convert_to_type_callback]
  /\ lastArg' = [lastArg EXCEPT !.convert_to_type_callback = convert_to_type_callback]
  /\ nsets' = nsets + 1
  /\ UNCHANGED <<avars, cvars, ivars, ovars>>

(***************************************************************************)
(* Compilation: JSNativeObjectDefinition<T> and JSNativeObject<T>          *)
(***************************************************************************)
\* JSNativeObjectDefinition<T>(builder): a copy of every builder field but the
\* context, plus the copy of the name whose buffer backs className
JSNativeObjectDefinition(b) ==
  [ class_name                          |-> b.class_name,
    class_name_for_js_class_definition  |-> b.class_name,
    attributes                          |-> b.attributes,
    parent_ptr                          |-> b.parent_ptr,
    value_property_callbacks            |-> b.value_property_callbacks,
    function_property_callbacks         |-> b.function_property_callbacks,
    initialize_callback                 |-> b.initialize_callback,
    finalize_callback                   |-> b.finalize_callback,
    has_property_callback               |-> b.has_property_callback,
    get_property_callback               |-> b.get_property_callback,
    set_property_callback               |-> b.set_property_callback,
    delete_property_callback            |-> b.delete_property_callback,
    get_property_names_callback         |-> b.get_property_names_callback,
    call_as_function_with_this_callback |-> b.call_as_function_with_this_callback,
    call_as_function_callback           |-> b.call_as_function_callback,
    call_as_constructor_callback        |-> b.call_as_constructor_callback,
    has_instance_callback               |-> b.has_instance_callback,
    convert_to_type_callback            |-> b.convert_to_type_callback ]

\* get_js_native_object_definition(): the definition of the builder as it is
get_js_native_object_definition(b) == JSNativeObjectDefinition(b)

\* the engine's class record before the constructor fills it in: no parent,
\* no static tables, no callbacks
EmptyClassDefinition ==
  [ attributes      |-> 0,
    className       |-> "",
    parentClass     |-> NullPtr,
    staticValues    |-> {},
    staticFunctions |-> {},
    initialize      |-> NullCb,
    finalize        |-> NullCb,
    hasProperty     |-> NullCb,
    getProperty     |-> NullCb,
    setProperty     |-> NullCb,
    getPropertyNames |-> NullCb,
    callAsConstructor |-> NullCb,
    hasInstance     |-> NullCb ]

RECURSIVE to_ulong_SumsPositions(_)
\* to_ulong that adds up the bit positions instead of their powers of two
to_ulong_SumsPositions(bits) ==
  IF bits = {} THEN 0
  ELSE LET b == CHOOSE x \in bits : TRUE
       IN  b + to_ulong_SumsPositions(bits \ {b})

RECURSIVE to_ulong(_)
\* std::bitset::to_ulong of the set of bit positions that are set
to_ulong(bits) ==
  IF bits = {} THEN 0
  ELSE LET b == CHOOSE x \in bits : TRUE
       IN  2 ^ b + to_ulong(bits \ {b})

\* the loop over the attributes with a set(pos) that wraps a position around
\* the width instead of throwing
AttributeBits_Wraps(attributes) ==
  [thrown |-> "none", bits |-> {a % BitsetWidth : a \in attributes}]

\* the loop over the attributes: bitset<2>::set(pos) throws std::out_of_range
\* for a position that is not below the width
AttributeBits(attributes) ==
  IF \E a \in attributes : a >= BitsetWidth
  THEN [thrown |-> "out_of_range", bits |-> {}]
  ELSE [thrown |-> "none", bits |-> attributes]

\* ParentClassOf without the if (parent_ptr_) guard: the null parent is
\* dereferenced and parentClass receives a handle of no class
ParentClassOf_Unguarded(definition) ==
  IF definition.parent_ptr # NullPtr THEN definition.parent_ptr ELSE 0 - 1

\* ParentClassOf that takes js_class_ of the object under construction, whose
\* handle is the next one, instead of the parent's
ParentClassOf_OwnClass(definition) ==
  IF definition.parent_ptr # NullPtr THEN Len(classes) + 1 ELSE NullPtr

\* parentClass is assigned only under if (parent_ptr_), from the parent's
\* js_class_ (the handle of class number p is p)
ParentClassOf(definition) ==
  IF definition.parent_ptr # NullPtr THEN definition.parent_ptr ELSE NullPtr

\* JSNativeObject<T>(builder): the compiled object, or what the constructor
\* throws.  Only attributes, className, parentClass and initialize are ever
\* assigned; the loop over the value property callbacks has an empty body.
JSNativeObject(b) ==
  LET definition == get_js_native_object_definition(b)
      ab == AttributeBits(definition.attributes)
  IN  IF ab.thrown # "none"
      THEN [thrown |-> ab.thrown]
      ELSE [thrown |-> "none",
            js_context |-> b.js_context,
            js_native_object_definition |-> definition,
            js_class_definition |->
              [EmptyClassDefinition EXCEPT
                 !.attributes  = to_ulong(ab.bits),
                 !.className   = definition.class_name_for_js_class_definition,
                 !.parentClass = ParentClassOf(definition),
                 !.initialize  = IF definition.initialize_callback # NullCb
                                 THEN "JSObjectInitializeCallback" ELSE NullCb]]

\* build() with a check that rejects an empty class name
build_RejectEmptyName ==
  /\ Len(classes) < MaxClasses
  /\ LET r == IF builder.class_name = "" THEN [thrown |-> "invalid_argument"]
              ELSE JSNativeObject(builder)
     IN  /\ classes' = IF r.thrown = "none" THEN Append(classes, r) ELSE classes
         /\ buildResult' = [outcome |-> IF r.thrown = "none" THEN "ok" ELSE r.thrown,
                            from |-> builder,
                            created |-> Len(classes') - Len(classes)]
  /\ UNCHANGED <<avars, bvars, ivars, ovars>>

\* build() that moves the builder's members into the class it returns and
\* leaves the builder with its defaults
build_MovesBuilder ==
  /\ Len(classes) < MaxClasses
  /\ LET r == JSNativeObject(builder)
     IN  /\ classes' = IF r.thrown = "none" THEN Append(classes, r) ELSE classes
         /\ buildResult' = [outcome |-> IF r.thrown = "none" THEN "ok" ELSE r.thrown,
                            from |-> builder,
                            created |-> Len(classes') - Len(classes)]
  /\ builder' = BuilderDefaults(builder.js_context)
  /\ UNCHANGED <<avars, lastArg, nsets, ivars, ovars>>

\* build(): no validation (the source leaves it as a TODO); constructs the
\* class from the builder, which it does not change
build ==
  /\ Len(classes) < MaxClasses
  /\ LET r == JSNativeObject(builder)
     IN  /\ classes' = IF r.thrown = "none" THEN Append(classes, r) ELSE classes
         /\ buildResult' = [outcome |-> IF r.thrown = "none" THEN "ok" ELSE r.thrown,
                            from |-> builder,
                            created |-> Len(classes') - Len(classes)]
  /\ UNCHANGED <<avars, bvars, ivars, ovars>>

(***************************************************************************)
(* The engine's use of a compiled class, as the builder's documentation    *)
(* states it: the order of initialize and finalize along the parent chain, *)
(* and the forwarding order of a property request.                         *)
(***************************************************************************)
ValidClass(c) == c \in 1..Len(classes)

RECURSIVE ClassChain(_, _)
\* the classes from c up its parentClass links, most derived first; a link
\* that is no class handle ends the walk with that handle
ClassChain(c, fuel) ==
  IF c = NullPtr THEN <<>>
  ELSE IF ~ValidClass(c) \/ fuel = 0 THEN <<c>>
  ELSE <<c>> \o ClassChain(classes[c].js_class_definition.parentClass, fuel - 1)

ChainOf(c) == ClassChain(c, MaxClasses + 1)

RECURSIVE Reverse(_)
Reverse(s) == IF s = <<>> THEN <<>> ELSE Append(Reverse(Tail(s)), Head(s))

RECURSIVE WithSlot(_, _)
\* the subsequence of the handles in s whose class has the slot installed
WithSlot(s, slot) ==
  IF s = <<>> THEN <<>>
  ELSE IF ValidClass(Head(s)) /\ classes[Head(s)].js_class_definition[slot] # NullCb
       THEN <<Head(s)>> \o WithSlot(Tail(s), slot)
       ELSE WithSlot(Tail(s), slot)

\* initialize is called on the least derived class first and the most
\* derived class last, for the classes that installed it
InitializeOrder(c) == WithSlot(Reverse(ChainOf(c)), "initialize")

\* finalize is called on the most derived class first and the least derived
\* class last, for the classes that installed it
FinalizeOrder(c) == WithSlot(ChainOf(c), "finalize")

\* the ordinal of JSNativeObjectAttributes::NoAutomaticPrototype, whose bit
\* in the mask is kJSClassAttributeNoAutomaticPrototype
NoAutomaticPrototype == 1

\* the names in the static value and function tables of class record cd
StaticNames(cd) ==
  {v.name : v \in cd.staticValues} \cup {f.name : f \in cd.staticFunctions}

\* the prototype the engine gives an object of class c: the one shared
\* prototype generated for the class, holding the class's properties, or,
\* under NoAutomaticPrototype, only the default object prototype
PrototypeOf(c) ==
  LET cd == classes[c].js_class_definition
  IN  IF (cd.attributes \div (2 ^ NoAutomaticPrototype)) % 2 = 1
      THEN [kind |-> "default", class |-> NullPtr, properties |-> {}]
      ELSE [kind |-> "automatic", class |-> c, properties |-> StaticNames(cd)]

\* the copy of the class's properties an object of class c carries itself
\* under NoAutomaticPrototype
OwnPropertiesOf(c) ==
  LET cd == classes[c].js_class_definition
  IN  IF (cd.attributes \div (2 ^ NoAutomaticPrototype)) % 2 = 1
      THEN StaticNames(cd) ELSE {}

\* the engine makes an object of class c and runs the installed initialize
\* trampolines, each of which invokes its definition's initialize_callback
Instantiate(c) ==
  /\ Len(instances) < MaxInstances
  /\ ValidClass(c)
  /\ instances' = Append(instances,
                    [class |-> c, state |-> "live",
                     initialized |-> InitializeOrder(c),
                     finalized |-> <<>>,
                     prototype |-> PrototypeOf(c),
                     own_properties |-> OwnPropertiesOf(c)])
  /\ UNCHANGED <<avars, bvars, cvars, last, ovars>>

\* the collector finalizes a live instance: the installed finalize
\* trampolines run, then the object is gone
Collect(i) ==
  /\ i \in 1..Len(instances)
  /\ instances[i].state = "live"
  /\ instances' = [instances EXCEPT
                     ![i].state = "collected",
                     ![i].finalized = FinalizeOrder(instances[i].class)]
  /\ UNCHANGED <<avars, bvars, cvars, last, ovars>>

\* what the example native class answers from its catch-all callbacks: it
\* manages the one dynamic property "dyn"
NativeGetProperty(name) == IF name = "dyn" THEN "99" ELSE Undefined
NativeSetProperty(name) == name = "dyn"

\* the default object prototype at the end of every prototype chain
PrototypeGet(name) ==
  IF name = "toString" THEN "Object.prototype.toString" ELSE Undefined

RECURSIVE GetOnChain(_, _, _)
\* a get request on the classes of chain, most derived first: per class the
\* get-property callback, then its static value and function tables, then
\* the parent class; past the last class the default object class (no own
\* property) and the prototype chain
GetOnChain(chain, name, consulted) ==
  IF chain = <<>>
  THEN [result |-> PrototypeGet(name),
        consulted |-> consulted \o <<"default", "prototype">>,
        invoked |-> {}]
  ELSE IF ~ValidClass(Head(chain))
  THEN [result |-> Fault, consulted |-> consulted, invoked |-> {}]
  ELSE
    LET cd == classes[Head(chain)].js_class_definition
        viaCb == IF cd.getProperty # NullCb THEN NativeGetProperty(name) ELSE Undefined
        vals == {v \in cd.staticValues : v.name = name}
        fns == {f \in cd.staticFunctions : f.name = name}
        c1 == IF cd.getProperty # NullCb THEN Append(consulted, "callback") ELSE consulted
        c2 == IF cd.staticValues # {} THEN Append(c1, "value") ELSE c1
        c3 == IF cd.staticFunctions # {} THEN Append(c2, "function") ELSE c2
    IN  IF viaCb # Undefined
        THEN [result |-> viaCb, consulted |-> c1, invoked |-> {"get_property_callback"}]
        ELSE IF vals # {}
        THEN [result |-> (CHOOSE v \in vals : TRUE).getter, consulted |-> c2,
              invoked |-> {"getter"}]
        ELSE IF fns # {}
        THEN [result |-> (CHOOSE f \in fns : TRUE).function_callback, consulted |-> c3,
              invoked |-> {}]
        ELSE LET r == GetOnChain(Tail(chain), name, Append(c3, "parent"))
             IN  [r EXCEPT !.invoked = r.invoked \cup
                    (IF cd.getProperty # NullCb THEN {"get_property_callback"} ELSE {})]

RECURSIVE SetOnChain(_, _, _)
\* a set request: per class the set-property callback, then its static value
\* table (a ReadOnly entry is not written), then the parent class; past the
\* last class the request is forwarded to the default object class and the
\* prototype chain
SetOnChain(chain, name, consulted) ==
  IF chain = <<>>
  THEN [result |-> "forwarded",
        consulted |-> consulted \o <<"default", "prototype">>,
        invoked |-> {}]
  ELSE IF ~ValidClass(Head(chain))
  THEN [result |-> Fault, consulted |-> consulted, invoked |-> {}]
  ELSE
    LET cd == classes[Head(chain)].js_class_definition
        viaCb == cd.setProperty # NullCb /\ NativeSetProperty(name)
        vals == {v \in cd.staticValues : v.name = name /\ "ReadOnly" \notin v.attributes}
        c1 == IF cd.setProperty # NullCb THEN Append(consulted, "callback") ELSE consulted
        c2 == IF cd.staticValues # {} THEN Append(c1, "value") ELSE c1
    IN  IF viaCb
        THEN [result |-> "handled", consulted |-> c1, invoked |-> {"set_property_callback"}]
        ELSE IF vals # {}
        THEN [result |-> "handled", consulted |-> c2,
              invoked |-> {(CHOOSE v \in vals : TRUE).setter}]
        ELSE LET r == SetOnChain(Tail(chain), name, Append(c2, "parent"))
             IN  [r EXCEPT !.invoked = r.invoked \cup
                    (IF cd.setProperty # NullCb THEN {"set_property_callback"} ELSE {})]

\* a script reads property name of live instance i
get_property(i, name) ==
  /\ i \in 1..Len(instances)
  /\ instances[i].state = "live"
  /\ LET r == GetOnChain(ChainOf(instances[i].class), name, <<>>)
     IN  last' = [op |-> "get", instance |-> i, name |-> name,
                  result |-> r.result, consulted |-> r.consulted, invoked |-> r.invoked]
  /\ UNCHANGED <<avars, bvars, cvars, instances, ovars>>

\* a script writes property name of live instance i
set_property(i, name) ==
  /\ i \in 1..Len(instances)
  /\ instances[i].state = "live"
  /\ LET r == SetOnChain(ChainOf(instances[i].class), name, <<>>)
     IN  last' = [op |-> "set", instance |-> i, name |-> name,
                  result |-> r.result, consulted |-> r.consulted, invoked |-> r.invoked]
  /\ UNCHANGED <<avars, bvars, cvars, instances, ovars>>

\* what the example native class answers from its has-property and
\* property-names callbacks
NativeHasProperty(name) == name \in {"dyn", "greet"}
NativeGetPropertyNames == {"dyn", "count"}

RECURSIVE HasOnChain(_, _)
\* a has request on the classes of chain: per class the has-property
\* callback, or the get-property callback when there is none; a false
\* answer forwards to the static tables, then the parent class; past the
\* last class the default object class and the prototype chain
HasOnChain(chain, name) ==
  IF chain = <<>>
  THEN [result |-> PrototypeGet(name) # Undefined, invoked |-> {}]
  ELSE IF ~ValidClass(Head(chain))
  THEN [result |-> FALSE, invoked |-> {Fault}]
  ELSE
    LET cd == classes[Head(chain)].js_class_definition
        asked == IF cd.hasProperty # NullCb THEN {"has_property_callback"}
                 ELSE IF cd.getProperty # NullCb THEN {"get_property_callback"}
                 ELSE {}
        viaCb == IF cd.hasProperty # NullCb THEN NativeHasProperty(name)
                 ELSE cd.getProperty # NullCb /\ NativeGetProperty(name) # Undefined
    IN  IF viaCb \/ name \in StaticNames(cd)
        THEN [result |-> TRUE, invoked |-> asked]
        ELSE LET r == HasOnChain(Tail(chain), name)
             IN  [r EXCEPT !.invoked = r.invoked \cup asked]

RECURSIVE NamesOnChain(_)
\* how many times each name is added to the accumulator of an enumeration:
\* per class the names its property-names callback adds and, independently,
\* the names of its static tables
NamesOnChain(chain) ==
  IF chain = <<>> \/ ~ValidClass(Head(chain))
  THEN [n \in Names |-> 0]
  ELSE
    LET cd == classes[Head(chain)].js_class_definition
        rest == NamesOnChain(Tail(chain))
    IN  [n \in Names |->
           rest[n]
           + (IF cd.getPropertyNames # NullCb /\ n \in NativeGetPropertyNames
              THEN 1 ELSE 0)
           + (IF n \in StaticNames(cd) THEN 1 ELSE 0)]

\* a script asks whether live instance i has property name
has_property(i, name) ==
  /\ i \in 1..Len(instances)
  /\ instances[i].state = "live"
  /\ LET r == HasOnChain(ChainOf(instances[i].class), name)
     IN  last' = [op |-> "has", instance |-> i, name |-> name,
                  result |-> r.result, invoked |-> r.invoked]
  /\ UNCHANGED <<avars, bvars, cvars, instances, ovars>>

\* a script enumerates the properties of live instance i
enumerate_properties(i) ==
  /\ i \in 1..Len(instances)
  /\ instances[i].state = "live"
  /\ last' = [op |-> "enumerate", instance |-> i,
               listed |-> NamesOnChain(ChainOf(instances[i].class))]
  /\ UNCHANGED <<avars, bvars, cvars, instances, ovars>>

(***************************************************************************)
(* The specification of the builder, the classes built and their instances *)
(***************************************************************************)
Next ==
  \/ \E a \in Contexts : set_js_context(a)
  \/ \E a \in ClassNames : set_class_name(a)
  \/ \E a \in AttributeArgs : set_attributes(a)
  \/ \E a \in 0..Len(classes) : set_parent_ptr(a)
  \/ \E a \in SUBSET ValuePool : set_value_property_callbacks(a)
  \/ \E a \in SUBSET FunctionPool : set_function_property_callbacks(a)
  \/ \E a \in CallbackArgs : set_initialize_callback(a)
  \/ \E a \in CallbackArgs : set_finalize_callback(a)
  \/ \E a \in CallbackArgs : set_has_property_callback(a)
  \/ \E a \in CallbackArgs : set_get_property_callback(a)
  \/ \E a \in CallbackArgs : set_set_property_callback(a)
  \/ \E a \in CallbackArgs : set_delete_property_callback(a)
  \/ \E a \in CallbackArgs : set_get_property_names_callback(a)
  \/ \E a \in CallbackArgs : set_call_as_function_callback(a)
  \/ \E a \in CallbackArgs : set_call_as_function_with_this_callback(a)
  \/ \E a \in CallbackArgs : set_call_as_constructor_callback(a)
  \/ \E a \in CallbackArgs : set_has_instance_callback(a)
  \/ \E a \in CallbackArgs : set_convert_to_type_callback(a)
  \/ build
  \/ \E c \in 1..Len(classes) : Instantiate(c)
  \/ \E i \in 1..Len(instances) : Collect(i)
  \/ \E i \in 1..Len(instances), n \in Names : get_property(i, n)
  \/ \E i \in 1..Len(instances), n \in Names : set_property(i, n)
  \/ \E i \in 1..Len(instances), n \in Names : has_property(i, n)
  \/ \E i \in 1..Len(instances) : enumerate_properties(i)

Spec == Init /\ [][Next]_vars

(***************************************************************************)
(* JSExportNamedFunctionPropertyCallback<T>                                *)
(***************************************************************************)
\* the constructor without the check of function_callback in its body
JSExportNamedFunctionPropertyCallback_NoCheck(function_name, function_callback, attributes) ==
  IF function_name = ""
  THEN [thrown |-> "invalid_argument"]
  ELSE [thrown |-> "none",
        object |-> [name |-> function_name, attributes |-> attributes,
                    function_callback |-> function_callback]]

\* the constructor: the base JSPropertyCallback(function_name, attributes)
\* rejects an empty name, then the body rejects a missing function_callback;
\* either throws std::invalid_argument and no object comes to exist
JSExportNamedFunctionPropertyCallback(function_name, function_callback, attributes) ==
  IF function_name = ""
  THEN [thrown |-> "invalid_argument"]
  ELSE IF function_callback = NullCb
  THEN [thrown |-> "invalid_argument"]
  ELSE [thrown |-> "none",
        object |-> [name |-> function_name, attributes |-> attributes,
                    function_callback |-> function_callback]]

\* operator== of the base JSPropertyCallback: name and attributes
JSPropertyCallbackEqual(lhs, rhs) ==
  lhs.name = rhs.name /\ lhs.attributes = rhs.attributes

\* operator== that also compares the two bound callbacks
CallbackEqual_ComparesCallbacks(lhs, rhs) ==
  /\ lhs.function_callback = rhs.function_callback
  /\ lhs.name = rhs.name /\ lhs.attributes = rhs.attributes

\* operator==: false when exactly one side has a callback, else the base
\* comparison; the two bound callbacks are not compared with one another
CallbackEqual(lhs, rhs) ==
  IF lhs.function_callback # NullCb /\ rhs.function_callback = NullCb THEN FALSE
  ELSE IF lhs.function_callback = NullCb /\ rhs.function_callback # NullCb THEN FALSE
  ELSE JSPropertyCallbackEqual(lhs, rhs)

\* operator!=
CallbackNotEqual(lhs, rhs) == ~CallbackEqual(lhs, rhs)

\* a caller constructs a callback object
Construct(function_name, function_callback, attributes) ==
  /\ Len(objs) < MaxObjects
  /\ LET r == JSExportNamedFunctionPropertyCallback(function_name, function_callback, attributes)
     IN  /\ objs' = IF r.thrown = "none" THEN Append(objs, r.object) ELSE objs
         /\ ctorResult' = [outcome |-> IF r.thrown = "none" THEN "ok" ELSE r.thrown,
                           function_name |-> function_name,
                           function_callback |-> function_callback,
                           at |-> "construction"]
  /\ UNCHANGED <<avars, bvars, cvars, ivars, cmp>>

\* the copy constructor: base and function_callback__ are copied
CopyConstruct(i) ==
  /\ Len(objs) < MaxObjects
  /\ i \in 1..Len(objs)
  /\ objs' = Append(objs, objs[i])
  /\ UNCHANGED <<avars, bvars, cvars, ivars, ctorResult, cmp>>

\* copy assignment: base and function_callback__ are assigned
CopyAssign(i, j) ==
  /\ i \in 1..Len(objs) /\ j \in 1..Len(objs)
  /\ objs' = [objs EXCEPT ![i] = objs[j]]
  /\ UNCHANGED <<avars, bvars, cvars, ivars, ctorResult, cmp>>

\* what member swap exchanges: function_callback__ and nothing else
SwapMembers(a, b) ==
  [first  |-> [a EXCEPT !.function_callback = b.function_callback],
   second |-> [b EXCEPT !.function_callback = a.function_callback]]

\* swap(first, second)
swap(i, j) ==
  /\ i \in 1..Len(objs) /\ j \in 1..Len(objs) /\ i # j
  /\ LET r == SwapMembers(objs[i], objs[j])
     IN  objs' = [objs EXCEPT ![i] = r.first, ![j] = r.second]
  /\ UNCHANGED <<avars, bvars, cvars, ivars, ctorResult, cmp>>

\* a caller compares two callback objects
Compare(i, j) ==
  /\ i \in 1..Len(objs) /\ j \in 1..Len(objs)
  /\ cmp' = [op |-> "==", lhs |-> objs[i], rhs |-> objs[j],
             result |-> CallbackEqual(objs[i], objs[j])]
  /\ UNCHANGED <<avars, bvars, cvars, ivars, objs, ctorResult>>

ObjectsHeld == {objs[i] : i \in 1..Len(objs)}

NextCallback ==
  \/ \E n \in FunctionNames, f \in FunctionCallbacks, a \in PropertyAttributeSets :
       Construct(n, f, a)
  \/ \E i \in 1..Len(objs) : CopyConstruct(i)
  \/ \E i \in 1..Len(objs), j \in 1..Len(objs) : CopyAssign(i, j)
  \/ \E i \in 1..Len(objs), j \in 1..Len(objs) : swap(i, j)
  \/ \E i \in 1..Len(objs), j \in 1..Len(objs) : Compare(i, j)
  \/ \E S \in SUBSET ObjectsHeld : set_function_property_callbacks(S)

SpecCallback == Init /\ [][NextCallback]_vars

(***************************************************************************)
(* JSArray                                                                 *)
(***************************************************************************)
\* a uint32_t is kept as two 16-bit words, hi * Word + lo
Word == 2 ^ 16

\* JavaScript values.  A number is hi * Word + lo, plus one half when half
\* is set, or NaN; lo is in 0..Word-1 and hi carries the sign.
UndefinedValue == [type |-> "undefined"]
BooleanValue(b) == [type |-> "boolean", b |-> b]
StringValue(s) == [type |-> "string", s |-> s]
NumberValue(hi, lo, half) ==
  [type |-> "number", nan |-> FALSE, hi |-> hi, lo |-> lo, half |-> half]
NaNValue == [type |-> "number", nan |-> TRUE, hi |-> 0, lo |-> 0, half |-> FALSE]

\* the values a stored element of the wrapped object may have: true, "7",
\* 2.5 and -1; an index past the stored elements reads as undefined
ElementValues ==
  { BooleanValue(TRUE), StringValue("7"),
    NumberValue(0, 2, TRUE), NumberValue(0 - 1, Word - 1, FALSE) }

\* the values the "length" property of the wrapped object may have:
\* undefined, "3", 0, 1, 3, 2.5, -1, 2^32 + 1 and NaN
LengthValues ==
  { UndefinedValue, StringValue("3"),
    NumberValue(0, 0, FALSE), NumberValue(0, 1, FALSE), NumberValue(0, 3, FALSE),
    NumberValue(0, 2, TRUE), NumberValue(0 - 1, Word - 1, FALSE),
    NumberValue(Word, 1, FALSE), NaNValue }

\* the sequences of at most n element values
ElementSeqs(n) == UNION {[1..k -> ElementValues] : k \in 0..n}

\* JSObject::HasProperty and JSObject::GetProperty on the wrapped object, for
\* a property name and for an index; an element that is not there reads as
\* undefined
HasProperty(obj, property_name) == property_name = "length" /\ obj.has_length
GetProperty(obj, property_name) ==
  IF property_name = "length" /\ obj.has_length THEN obj.length ELSE UndefinedValue
GetPropertyAtIndex(obj, i) ==
  IF i + 1 \in 1..Len(obj.items) THEN obj.items[i + 1] ELSE UndefinedValue

\* JSValue::IsNumber
IsNumber(v) == v.type = "number"

\* the integer part of a number, rounded toward zero, as hi and lo
Truncate(v) ==
  IF v.half /\ v.hi < 0
  THEN IF v.lo + 1 = Word THEN [hi |-> v.hi + 1, lo |-> 0]
       ELSE [hi |-> v.hi, lo |-> v.lo + 1]
  ELSE [hi |-> v.hi, lo |-> v.lo]

\* the conversions of a number to uint32_t and to int32_t: NaN is 0, else the
\* integer part modulo 2^32
to_uint32_t(v) ==
  IF v.nan THEN [hi |-> 0, lo |-> 0]
  ELSE LET t == Truncate(v) IN [hi |-> t.hi % Word, lo |-> t.lo]
to_int32_t(v) ==
  LET u == to_uint32_t(v)
  IN  IF u.hi >= Word \div 2 THEN [hi |-> u.hi - Word, lo |-> u.lo] ELSE u

\* the number a string denotes
StringToNumber(s) ==
  CASE s = ""  -> NumberValue(0, 0, FALSE)
    [] s = "3" -> NumberValue(0, 3, FALSE)
    [] s = "7" -> NumberValue(0, 7, FALSE)
    [] OTHER   -> NaNValue

DigitChars == <<"0", "1", "2", "3", "4", "5", "6", "7", "8", "9">>

RECURSIVE Digits(_)
\* the decimal digits of a natural number
Digits(n) ==
  IF n < 10 THEN DigitChars[n + 1]
  ELSE Digits(n \div 10) \o DigitChars[(n % 10) + 1]

\* the string of a number
NumberToString(v) ==
  IF v.nan THEN "NaN"
  ELSE LET n == v.hi * Word + v.lo
           whole == IF n < 0 THEN (0 - n) - (IF v.half THEN 1 ELSE 0) ELSE n
       IN  (IF n < 0 THEN "-" ELSE "") \o Digits(whole)
             \o (IF v.half THEN ".5" ELSE "")

\* JSValue::operator bool, std::string and double
ToBoolean(v) ==
  CASE v.type = "undefined" -> FALSE
    [] v.type = "boolean"   -> v.b
    [] v.type = "string"    -> v.s # ""
    [] v.type = "number"    -> ~v.nan /\ ~(v.hi = 0 /\ v.lo = 0 /\ ~v.half)
JSValueToString(v) ==
  CASE v.type = "undefined" -> "undefined"
    [] v.type = "boolean"   -> IF v.b THEN "true" ELSE "false"
    [] v.type = "string"    -> v.s
    [] v.type = "number"    -> NumberToString(v)
ToNumber(v) ==
  CASE v.type = "undefined" -> NaNValue
    [] v.type = "boolean"   -> IF v.b THEN NumberValue(0, 1, FALSE)
                               ELSE NumberValue(0, 0, FALSE)
    [] v.type = "string"    -> StringToNumber(v.s)
    [] v.type = "number"    -> v

\* the element types a JSArray converts to a vector of
ElementTypes == {"JSValue", "bool", "std::string", "double", "int32_t", "uint32_t"}

\* static_cast<type>(value) in the body of the conversion loops
Convert(type, v) ==
  CASE type = "JSValue"     -> v
    [] type = "bool"        -> ToBoolean(v)
    [] type = "std::string" -> JSValueToString(v)
    [] type = "double"      -> ToNumber(v)
    [] type = "int32_t"     -> to_int32_t(ToNumber(v))
    [] type = "uint32_t"    -> to_uint32_t(ToNumber(v))

\* JSArray::MakeArray: JSObjectMakeArray gives an array of the arguments
MakeArray(arguments) ==
  [has_length |-> TRUE,
   length |-> NumberValue(0, Len(arguments), FALSE),
   items |-> arguments]

\* GetLength without the IsNumber check
GetLength_NoNumberCheck(obj) ==
  IF ~HasProperty(obj, "length") THEN [hi |-> 0, lo |-> 0]
  ELSE to_uint32_t(ToNumber(GetProperty(obj, "length")))

\* JSArray::GetLength
GetLength(obj) ==
  IF ~HasProperty(obj, "length") THEN [hi |-> 0, lo |-> 0]
  ELSE LET length == GetProperty(obj, "length")
       IN  IF ~IsNumber(length) THEN [hi |-> 0, lo |-> 0]
           ELSE to_uint32_t(length)

RECURSIVE VectorLoop_Inclusive(_, _, _, _, _)
\* the conversion loop with i <= length for its condition
VectorLoop_Inclusive(obj, type, i, length, items) ==
  IF i <= length
  THEN VectorLoop_Inclusive(obj, type, i + 1, length,
                            Append(items, Convert(type, GetPropertyAtIndex(obj, i))))
  ELSE items

RECURSIVE VectorLoop(_, _, _, _, _)
\* for (uint32_t i = 0; i < length; i++) items.push_back(static_cast<type>(GetProperty(i)))
VectorLoop(obj, type, i, length, items) ==
  IF i < length
  THEN VectorLoop(obj, type, i + 1, length,
                  Append(items, Convert(type, GetPropertyAtIndex(obj, i))))
  ELSE items

\* JSArray::operator std::vector<type>
ToVector(obj, type) ==
  LET length == GetLength(obj)
  IN  VectorLoop(obj, type, 0, length.hi * Word + length.lo, <<>>)

\* JSArray(js_context, arguments)
JSArrayFromArguments(arguments) ==
  /\ array' = MakeArray(arguments)
  /\ arrayResult' = [op |-> "none"]
  /\ UNCHANGED <<bvars, cvars, ivars, ovars>>

\* JSArray(js_context, js_object_ref): any object may be wrapped, with or
\* without a "length" property, whose value need not be its element count
JSArrayFromObject(has_length, length, items) ==
  /\ array' = [has_length |-> has_length,
               length |-> IF has_length THEN length ELSE UndefinedValue,
               items |-> items]
  /\ arrayResult' = [op |-> "none"]
  /\ UNCHANGED <<bvars, cvars, ivars, ovars>>

\* a caller asks for the length
CallGetLength ==
  /\ arrayResult' = [op |-> "GetLength", result |-> GetLength(array)]
  /\ UNCHANGED <<bvars, cvars, ivars, ovars, array>>

\* a caller converts the array to a vector of type; lengths beyond the
\* bound of the model are left out
CallToVector(type) ==
  /\ GetLength(array).hi = 0
  /\ GetLength(array).lo <= MaxArrayLen + 1
  /\ arrayResult' = [op |-> "vector", type |-> type, result |-> ToVector(array, type)]
  /\ UNCHANGED <<bvars, cvars, ivars, ovars, array>>

NextArray ==
  \/ \E a \in ElementSeqs(MaxArrayLen) : JSArrayFromArguments(a)
  \/ \E l \in LengthValues, a \in ElementSeqs(MaxArrayLen) :
       JSArrayFromObject(TRUE, l, a)
  \/ \E a \in ElementSeqs(MaxArrayLen) : JSArrayFromObject(FALSE, UndefinedValue, a)
  \/ CallGetLength
  \/ \E t \in ElementTypes : CallToVector(t)

SpecArray == Init /\ [][NextArray]_vars

(***************************************************************************)
(* Properties                                                              *)
(***************************************************************************)
\* the definition of the class of the instance of the last query
LastDefinition == classes[instances[last.instance].class].js_native_object_definition
LastChain == ChainOf(instances[last.instance].class)
DefinitionOf(c) == classes[c].js_native_object_definition

\* C1: a get-property(name) query consults the registered value property
\* named name first (its getter gives the result), else the registered
\* function property named name (the bound callable is the result), else the
\* catch-all get-property callback; no earlier layer is skipped.
C1_GetConsultsLayersInOrder ==
  last.op = "get" =>
    LET vals == {v \in LastDefinition.value_property_callbacks : v.name = last.name}
        fns  == {f \in LastDefinition.function_property_callbacks : f.name = last.name}
    IN  /\ vals # {} =>
             /\ last.result \in {v.getter : v \in vals}
             /\ "getter" \in last.invoked
        /\ (vals = {} /\ fns # {}) =>
             last.result \in {f.function_callback : f \in fns}
        /\ (vals = {} /\ fns = {} /\ LastDefinition.get_property_callback # NullCb
              /\ NativeGetProperty(last.name) # Undefined) =>
             last.result = NativeGetProperty(last.name)

\* C2: set-property on the name of a ReadOnly value property never invokes
\* that property's setter, and the request falls through to the catch-all
\* set-property callback of the class when it has one.
C2_ReadOnlyFallsThroughToCatchAll ==
  last.op = "set" =>
    \A v \in LastDefinition.value_property_callbacks :
      (v.name = last.name /\ "ReadOnly" \in v.attributes) =>
        /\ v.setter \notin last.invoked
        /\ LastDefinition.set_property_callback # NullCb =>
             "set_property_callback" \in last.invoked

\* no installed layer of the classes of chain, nor the prototype chain,
\* resolves name
NoLayerResolves(chain, name) ==
  /\ \A k \in 1..Len(chain) :
       /\ ValidClass(chain[k])
       /\ LET cd == classes[chain[k]].js_class_definition
          IN  /\ cd.getProperty = NullCb \/ NativeGetProperty(name) = Undefined
              /\ \A v \in cd.staticValues : v.name # name
              /\ \A f \in cd.staticFunctions : f.name # name
  /\ PrototypeGet(name) = Undefined

\* C3: a get-property query never ends in a native fault, and one that no
\* layer resolves yields the undefined sentinel.
C3_UnresolvedGetIsUndefined ==
  last.op = "get" =>
    /\ last.result # Fault
    /\ NoLayerResolves(LastChain, last.name) => last.result = Undefined

\* C3 witness: an unresolved name was read from an instance of a class that
\* has a parent class, through the parent chain and the prototype chain.
C3_Witness ==
  /\ last.op = "get"
  /\ last.name = "nope"
  /\ Len(LastChain) = 2
  /\ last.consulted = <<"parent", "parent", "default", "prototype">>
  /\ last.result = Undefined

\* C4: for an instance of a derived class D with parent class P, initialize
\* runs for P then D at construction, and finalize runs for D then P at
\* collection.
C4_InitializeParentFirstFinalizeReverse ==
  \A i \in 1..Len(instances) :
    LET chain == ChainOf(instances[i].class)
    IN  Len(chain) = 2 =>
          /\ (\A k \in 1..2 : DefinitionOf(chain[k]).initialize_callback # NullCb) =>
               instances[i].initialized = <<chain[2], chain[1]>>
          /\ (instances[i].state = "collected"
                /\ \A k \in 1..2 : DefinitionOf(chain[k]).finalize_callback # NullCb) =>
               instances[i].finalized = <<chain[1], chain[2]>>

\* the number of times class c occurs in the sequence s
Occurrences(s, c) == Cardinality({k \in 1..Len(s) : s[k] = c})

\* C5: for an instance of a class built with an initialize and a finalize
\* callback, initialize ran exactly once at construction, finalize never ran
\* twice, and a collected instance has had finalize run exactly once.
C5_InitializeAndFinalizeExactlyOnce ==
  \A i \in 1..Len(instances) :
    LET c == instances[i].class
    IN  (DefinitionOf(c).initialize_callback # NullCb
           /\ DefinitionOf(c).finalize_callback # NullCb) =>
          /\ Occurrences(instances[i].initialized, c) = 1
          /\ Occurrences(instances[i].finalized, c) <= 1
          /\ instances[i].state = "collected" =>
               Occurrences(instances[i].finalized, c) = 1

\* the value and function property sets of builder b share a name
NamesCollide(b) ==
  \E v \in b.value_property_callbacks, f \in b.function_property_callbacks :
    v.name = f.name

\* C6: build() on a builder with a value property and a function property
\* of the same name fails with InvalidArgument; with all names distinct it
\* succeeds.
C6_NameCollisionRejected ==
  buildResult.outcome # "none" =>
    /\ NamesCollide(buildResult.from) =>
         (buildResult.outcome = "invalid_argument" /\ buildResult.created = 0)
    /\ ~NamesCollide(buildResult.from) => buildResult.outcome = "ok"

\* C7 as claimed: build() on a builder with an empty class name fails with a
\* configuration error and creates no class.
C7_EmptyClassNameRejected ==
  (buildResult.outcome # "none" /\ buildResult.from.class_name = "") =>
    (buildResult.outcome = "invalid_argument" /\ buildResult.created = 0)

\* C7 as amended: build() on a builder with an empty class name is not
\* rejected: unless an attribute is outside the bitset it creates one class,
\* whose className is empty.
C7_EmptyClassNameBuilds ==
  (buildResult.outcome # "none" /\ buildResult.from.class_name = "") =>
    /\ buildResult.outcome # "invalid_argument"
    /\ (\A a \in buildResult.from.attributes : a < BitsetWidth) =>
         /\ buildResult.outcome = "ok"
         /\ buildResult.created = 1
         /\ classes[Len(classes)].js_class_definition.className = ""

\* C7 witness: build() was called on a builder on which no setter was ever
\* called, and it created a class.
C7_Witness ==
  /\ buildResult.outcome = "ok"
  /\ buildResult.from = BuilderDefaults("ctx1")
  /\ Len(classes) >= 1
  /\ classes[Len(classes)].js_class_definition.className = ""

C9_EqualIffSameBoundCallback ==
  cmp.op = "==" =>
    (cmp.result <=> /\ cmp.lhs.name = cmp.rhs.name
                    /\ cmp.lhs.attributes = cmp.rhs.attributes
                    /\ cmp.lhs.function_callback = cmp.rhs.function_callback)

\* C9 as amended: two callbacks compare equal exactly when they have the
\* same name and the same attributes and both or neither has a bound
\* callback; which callback is bound is not compared.
C9_EqualIffSameNameAndAttributes ==
  cmp.op = "==" =>
    (cmp.result <=> /\ cmp.lhs.name = cmp.rhs.name
                    /\ cmp.lhs.attributes = cmp.rhs.attributes
                    /\ (cmp.lhs.function_callback = NullCb
                          <=> cmp.rhs.function_callback = NullCb))

\* C9 witness: two callbacks of equal name and attributes but different
\* bound callbacks were compared and found equal.
C9_Witness ==
  /\ cmp.op = "=="
  /\ cmp.lhs.name = cmp.rhs.name
  /\ cmp.lhs.attributes = cmp.rhs.attributes
  /\ cmp.lhs.function_callback # cmp.rhs.function_callback
  /\ cmp.result

\* C10: every getter returns the argument of the most recent call of its
\* setter, or the default if the setter was never called.
C10_GettersReturnLastSet ==
  /\ get_js_context = lastArg.js_context
  /\ get_class_name = lastArg.class_name
  /\ get_attributes = lastArg.attributes
  /\ get_parent_ptr = lastArg.parent_ptr
  /\ get_value_property_callbacks = lastArg.value_property_callbacks
  /\ get_function_property_callbacks = lastArg.function_property_callbacks
  /\ get_initialize_callback = lastArg.initialize_callback
  /\ get_finalize_callback = lastArg.finalize_callback
  /\ get_has_property_callback = lastArg.has_property_callback
  /\ get_get_property_callback = lastArg.get_property_callback
  /\ get_set_property_callback = lastArg.set_property_callback
  /\ get_delete_property_callback = lastArg.delete_property_callback
  /\ get_get_property_names_callback = lastArg.get_property_names_callback
  /\ get_call_as_function_callback = lastArg.call_as_function_callback
  /\ get_call_as_function_with_this_callback = lastArg.call_as_function_with_this_callback
  /\ get_call_as_constructor_callback = lastArg.call_as_constructor_callback
  /\ get_has_instance_callback = lastArg.has_instance_callback
  /\ get_convert_to_type_callback = lastArg.convert_to_type_callback

\* C11: build() changes no field of the builder; every class it yields is
\* made from the builder as it is at that call; and no later step, a setter
\* call or a further build(), changes a class already built.
C11_BuildLeavesBuilderAndClassesIndependent ==
  [][ /\ (buildResult' # buildResult \/ classes' # classes) => builder' = builder
      /\ \A k \in 1..Len(classes) :
           k <= Len(classes') /\ classes'[k] = classes[k]
      /\ Len(classes') > Len(classes) =>
           /\ Len(classes') = Len(classes) + 1
           /\ classes'[Len(classes')].js_native_object_definition
                = JSNativeObjectDefinition(builder) ]_vars

\* C11 witness: build() was called twice on the same builder with a setter
\* call in between and one after, so the two classes differ from one another
\* and the builder differs from both.
C11_Witness ==
  /\ Len(classes) = 2
  /\ nsets = 2
  /\ classes[1].js_native_object_definition # classes[2].js_native_object_definition
  /\ JSNativeObjectDefinition(builder) # classes[1].js_native_object_definition
  /\ JSNativeObjectDefinition(builder) # classes[2].js_native_object_definition

\* bit a of the attribute mask m is set
BitSet(m, a) == (m \div (2 ^ a)) % 2 = 1

\* C12: the attribute mask of every compiled class has bit a set exactly
\* when attribute a is in the attribute set of its definition, one bit per
\* attribute, and the empty attribute set gives mask 0.
C12_MaskHasExactlyTheAttributeBits ==
  \A k \in 1..Len(classes) :
    LET A == classes[k].js_native_object_definition.attributes
        mask == classes[k].js_class_definition.attributes
    IN  /\ \A a \in 0..(BitsetWidth - 1) : BitSet(mask, a) <=> a \in A
        /\ mask \in 0..(2 ^ BitsetWidth - 1)
        /\ A = {} => mask = 0

\* C12 witness: a class was compiled from both attributes (mask 3) and
\* another from the empty attribute set (mask 0).
C12_Witness ==
  /\ \E k \in 1..Len(classes) :
       /\ classes[k].js_native_object_definition.attributes = {0, 1}
       /\ classes[k].js_class_definition.attributes = 3
  /\ \E k \in 1..Len(classes) :
       /\ classes[k].js_native_object_definition.attributes = {}
       /\ classes[k].js_class_definition.attributes = 0

\* the attribute set of builder b holds an ordinal outside the bitset
OutOfRangeAttribute(b) == \E a \in b.attributes : a >= BitsetWidth

\* C13 as claimed: build() with an attribute ordinal outside the bitset
\* fails with InvalidArgument and creates no class.
C13_OutOfRangeOrdinalIsInvalidArgument ==
  (buildResult.outcome # "none" /\ OutOfRangeAttribute(buildResult.from)) =>
    (buildResult.outcome = "invalid_argument" /\ buildResult.created = 0)

\* C13 as amended: build() with an attribute ordinal outside the bitset
\* fails with the bitset's out_of_range error and creates no class, so no
\* compiled class has a definition with such an ordinal, nor a mask with a
\* bit its definition does not name.
C13_OutOfRangeOrdinalIsOutOfRange ==
  /\ (buildResult.outcome # "none" /\ OutOfRangeAttribute(buildResult.from)) =>
       (buildResult.outcome = "out_of_range" /\ buildResult.created = 0)
  /\ \A k \in 1..Len(classes) :
       /\ ~OutOfRangeAttribute(classes[k].js_native_object_definition)
       /\ \A a \in 0..(BitsetWidth - 1) :
            BitSet(classes[k].js_class_definition.attributes, a) =>
              a \in classes[k].js_native_object_definition.attributes

\* C13 witness: after a class had been built, build() was called with the
\* attribute set {1, 2}; it threw and the classes are as they were.
C13_Witness ==
  /\ buildResult.outcome = "out_of_range"
  /\ buildResult.from.attributes = {1, 2}
  /\ buildResult.created = 0
  /\ Len(classes) = 1

\* the names of the value and function properties of definition d
RegisteredNames(d) ==
  {v.name : v \in d.value_property_callbacks}
    \cup {f.name : f \in d.function_property_callbacks}

\* C14: the instances of a class compiled without NoAutomaticPrototype all
\* have the one prototype generated for the class, which holds the class's
\* value and function properties; an instance of a class compiled with
\* NoAutomaticPrototype has no prototype of the class and carries its own
\* copy of the properties.
C14_PrototypeSharedUnlessNoAutomaticPrototype ==
  \A i \in 1..Len(instances) :
    LET c == instances[i].class
        d == DefinitionOf(c)
    IN  IF NoAutomaticPrototype \in d.attributes
        THEN /\ instances[i].prototype.kind = "default"
             /\ RegisteredNames(d) \subseteq instances[i].own_properties
             /\ \A j \in 1..Len(instances) :
                  (j # i /\ instances[j].class = c) =>
                    instances[j].prototype.kind = "default"
        ELSE /\ instances[i].prototype.kind = "automatic"
             /\ instances[i].prototype.class = c
             /\ RegisteredNames(d) \subseteq instances[i].prototype.properties
             /\ \A j \in 1..Len(instances) :
                  instances[j].class = c =>
                    instances[j].prototype = instances[i].prototype

\* C16: the answer of has-property(name) is the result of the has-property
\* callback when the class was configured with one, and otherwise is true
\* exactly when get-property(name) is not undefined.
C16_HasPropertyCallbackOrGetFallback ==
  last.op = "has" =>
    IF LastDefinition.has_property_callback # NullCb
    THEN last.result = NativeHasProperty(last.name)
    ELSE last.result = (GetOnChain(LastChain, last.name, <<>>).result # Undefined)

\* C17: build() on a builder with exactly one of the call-as-constructor and
\* has-instance callbacks is rejected, and no class built has a
\* call-as-constructor callback without a has-instance callback.
C17_ConstructorRequiresHasInstance ==
  /\ (buildResult.outcome # "none"
        /\ ((buildResult.from.call_as_constructor_callback # NullCb)
              # (buildResult.from.has_instance_callback # NullCb))) =>
       (buildResult.outcome = "invalid_argument" /\ buildResult.created = 0)
  /\ \A k \in 1..Len(classes) :
       DefinitionOf(k).call_as_constructor_callback # NullCb =>
         DefinitionOf(k).has_instance_callback # NullCb

\* C18: an enumeration lists every registered value property and function
\* property name of the instance's class exactly once, with or without a
\* property-names callback.
C18_EnumerateListsRegisteredNamesOnce ==
  last.op = "enumerate" =>
    \A n \in RegisteredNames(LastDefinition) : last.listed[n] = 1

\* C19: in every compiled class the registered property names are exactly
\* the value and function property names of its definition, and the
\* initialize trampoline is installed exactly when the definition has an
\* initialize callback.
C19_TrampolinesRegisteredForAllProperties ==
  \A k \in 1..Len(classes) :
    /\ StaticNames(classes[k].js_class_definition) = RegisteredNames(DefinitionOf(k))
    /\ (classes[k].js_class_definition.initialize # NullCb)
         <=> (DefinitionOf(k).initialize_callback # NullCb)

\* C20: the parent slot of every compiled class is the class its builder
\* named as parent, or none; that parent was compiled before it; and the
\* walk up the parent links from any class visits each class at most once
\* and ends at a class without parent.
C20_ParentChainAcyclic ==
  \A k \in 1..Len(classes) :
    LET p == classes[k].js_class_definition.parentClass
        chain == ClassChain(k, Len(classes) + 1)
    IN  /\ p = DefinitionOf(k).parent_ptr
        /\ p # NullPtr => p \in 1..(k - 1)
        /\ Len(chain) <= Len(classes)
        /\ \A a, b \in 1..Len(chain) : chain[a] = chain[b] => a = b
        /\ \A a \in 1..Len(chain) : ValidClass(chain[a])
        /\ classes[chain[Len(chain)]].js_class_definition.parentClass = NullPtr

\* C20 witness: a class was built with the class built before it as parent,
\* and its chain is itself, then its parent.
C20_Witness ==
  /\ Len(classes) = 2
  /\ DefinitionOf(2).parent_ptr = 1
  /\ classes[2].js_class_definition.parentClass = 1
  /\ classes[1].js_class_definition.parentClass = NullPtr
  /\ ChainOf(2) = <<2, 1>>

\* C21: swap(a, b) exchanges the two callbacks: afterwards a is what b was
\* and b is what a was, in name, attributes and bound callback, and a second
\* swap gives both their original values back.
C21_SwapExchangesTheObjects ==
  [][ \A i, j \in 1..Len(objs) :
        swap(i, j) =>
          /\ objs'[i] = objs[j]
          /\ objs'[j] = objs[i]
          /\ SwapMembers(objs'[i], objs'[j]) = [first |-> objs[i], second |-> objs[j]]
    ]_vars

\* C22: GetLength always returns a uint32_t: 0 when the object has no
\* "length" property or its "length" is not a number, and otherwise the
\* "length" number converted to uint32_t (NaN gives 0, else its integer
\* part modulo 2^32).
C22_GetLengthZeroOrConvertedLength ==
  arrayResult.op = "GetLength" =>
    LET r == arrayResult.result
    IN  /\ r.hi \in 0..(Word - 1) /\ r.lo \in 0..(Word - 1)
        /\ ~array.has_length => r = [hi |-> 0, lo |-> 0]
        /\ (array.has_length /\ array.length.type # "number") => r = [hi |-> 0, lo |-> 0]
        /\ (array.has_length /\ array.length.type = "number") =>
             IF array.length.nan THEN r = [hi |-> 0, lo |-> 0]
             ELSE /\ r.lo = Truncate(array.length).lo
                  /\ (r.hi - Truncate(array.length).hi) % Word = 0

\* C22 witness: GetLength was called on an object whose "length" is
\* 2^32 + 1 and returned 1.
C22_Witness ==
  /\ arrayResult.op = "GetLength"
  /\ array.has_length
  /\ array.length = NumberValue(Word, 1, FALSE)
  /\ arrayResult.result = [hi |-> 0, lo |-> 1]

\* C23: the vector a JSArray converts to has GetLength() elements, the
\* element at index i being GetProperty(i) converted to the element type;
\* with no "length" or a "length" that is not a number it is empty.
C23_VectorHasLengthConvertedElements ==
  arrayResult.op = "vector" =>
    LET n == GetLength(array).lo
        items == arrayResult.result
    IN  /\ Len(items) = n
        /\ \A i \in 0..(n - 1) :
             items[i + 1] = Convert(arrayResult.type, GetPropertyAtIndex(array, i))
        /\ (~array.has_length \/ array.length.type # "number") => items = <<>>

\* C23 witness: an object with the elements 2.5 and -1 and "length" 3 was
\* converted to a vector of strings, which is "2.5", "-1", "undefined".
C23_Witness ==
  /\ arrayResult.op = "vector"
  /\ arrayResult.type = "std::string"
  /\ array.length = NumberValue(0, 3, FALSE)
  /\ array.items = <<NumberValue(0, 2, TRUE), NumberValue(0 - 1, Word - 1, FALSE)>>
  /\ arrayResult.result = <<"2.5", "-1", "undefined">>

====
